---- MODULE Spec2Model ----
(***************************************************************************)
(* Model of mnist_lenet/__init__.py: the LeNet brick (construction, the    *)
(* output_dim property, _push_allocation_config) and the driver main().    *)
(*                                                                         *)
(* Python lists are objects: the model keeps a small heap of list objects  *)
(* and the fields self.top_mlp_dims and self.top_mlp.dims hold references  *)
(* into it, so that in-place mutation and rebinding are different things.  *)
(*                                                                         *)
(* The bricks LeNet is built from (ConvolutionalSequence, MLP, the         *)
(* allocate/initialize lifecycle) are not part of this file; the           *)
(* definitions that stand for them are marked as such where they appear.   *)
(***************************************************************************)
EXTENDS Integers, Sequences, FiniteSets

\* ------------------------------------------------------------------ bounds
MaxLayers == 2      \* longest list of feature-extraction stages explored
MaxHead   == 2      \* longest list of hidden widths / head widths explored
MaxPush   == 2      \* how many times _push_allocation_config may run
NRefs     == 3      \* list objects the heap can hold

Refs == 1..NRefs

\* ---------------------------------------------------------- input domains
Activations  == {"Rectifier", "Tanh"}
FilterSizes  == {<<2, 2>>, <<3, 3>>}
FeatureMaps  == {2, 3}
PoolingSizes == {<<1, 1>>, <<2, 2>>}
ImageShapes  == {<<4, 4>>, <<2, 3>>}
BorderModes  == {"valid", "full"}
ConvSteps    == {<<>>, <<<<2, 2>>>>}   \* None or (2, 2)
OutputDims   == {5, 7}

\* An optional argument: <<>> is None (left out), <<x>> is the value x
None == <<>>
Some(x) == <<x>>
OrDefault(arg, default) == IF arg = None THEN default ELSE arg[1]

SeqsUpTo(S, n) == UNION {[1..k -> S] : k \in 0..n}
SeqsFromTo(S, m, n) == UNION {[1..k -> S] : k \in m..n}

Min(S) == CHOOSE x \in S : \A y \in S : x <= y

VARIABLES
    conv_activations,     \* constructor argument
    filter_sizes,         \* constructor argument
    feature_maps,         \* constructor argument
    pooling_sizes,        \* constructor argument
    num_channels,         \* self.num_channels
    image_shape,          \* self.image_shape
    conv_step,            \* self.conv_step
    border_mode,          \* self.border_mode
    layers,               \* self.layers
    top_mlp_activations,  \* self.top_mlp_activations
    top_mlp_dims,         \* self.top_mlp_dims: a reference to a list object
    top_mlp,              \* self.top_mlp: [activations, dims], dims a reference
    heap,                 \* the list objects, by reference; <<>> is a free cell
    stage_dims,           \* output shape resolved for each stage; <<>> before
    param_shapes,         \* shapes of the head's allocated weight matrices
    phase,                \* "constructed", "initialized", "applied"
    raised,               \* an exception left shape propagation
    pushCount,            \* completed runs of _push_allocation_config
    lastOp                \* <<operation, argument>> of the last call made

vars == <<conv_activations, filter_sizes, feature_maps, pooling_sizes,
          num_channels, image_shape, conv_step, border_mode, layers,
          top_mlp_activations, top_mlp_dims, top_mlp, heap, stage_dims,
          param_shapes, phase, raised, pushCount, lastOp>>

\* ------------------------------------------------------------ construction

\* 'conv_pool_{}'.format(i) for the i-th tuple of enumerate(params), 0-based
LayerName(k) == <<"conv_pool", k - 1>>

\* zip(conv_activations, filter_sizes, feature_maps, pooling_sizes): Python's
\* zip takes one element of every list in turn and stops at the first list
\* that is exhausted.
RECURSIVE Zip4(_, _, _, _)
Zip4(a, f, m, p) ==
    IF a = <<>> \/ f = <<>> \/ m = <<>> \/ p = <<>>
    THEN <<>>
    ELSE <<[activation |-> Head(a), filter_size |-> Head(f),
            num_filter |-> Head(m), pooling_size |-> Head(p)]>>
         \o Zip4(Tail(a), Tail(f), Tail(m), Tail(p))

\* The list comprehension building self.layers
ConstructLayers_Reversed(params, step, mode) ==
    [k \in 1..Len(params) |->
        LET t == params[Len(params) + 1 - k] IN
        [filter_size  |-> t.filter_size,
         num_filters  |-> t.num_filter,
         pooling_size |-> t.pooling_size,
         activation   |-> t.activation,
         conv_step    |-> step,
         border_mode  |-> mode,
         name         |-> LayerName(k)]]
ConstructLayers(params, step, mode) ==
    [k \in 1..Len(params) |->
        [filter_size  |-> params[k].filter_size,
         num_filters  |-> params[k].num_filter,
         pooling_size |-> params[k].pooling_size,
         activation   |-> params[k].activation,
         conv_step    |-> step,
         border_mode  |-> mode,
         name         |-> LayerName(k)]]

\* LeNet.__init__: the state of the object when the constructor returns.
\* dims is the list object handed in as top_mlp_dims; MLP(top_mlp_activations,
\* top_mlp_dims) is handed that same object.
LeNetInit(acts, nch, ishape, fsizes, fmaps, psizes, macts, dims, cstep, bmode) ==
    /\ conv_activations = acts
    /\ filter_sizes = fsizes
    /\ feature_maps = fmaps
    /\ pooling_sizes = psizes
    /\ conv_step = OrDefault(cstep, <<1, 1>>)
    /\ num_channels = nch
    /\ image_shape = ishape
    /\ top_mlp_activations = macts
    /\ border_mode = bmode
    /\ layers = ConstructLayers(Zip4(acts, fsizes, fmaps, psizes),
                                OrDefault(cstep, <<1, 1>>),
                                bmode)
    /\ heap = [r \in Refs |-> IF r = 1 THEN dims ELSE <<>>]
    /\ top_mlp_dims = 1
    /\ top_mlp = [activations |-> macts, dims |-> 1]
    /\ stage_dims = <<>>
    /\ param_shapes = <<>>
    /\ phase = "constructed"
    /\ raised = FALSE
    /\ pushCount = 0
    /\ lastOp = <<"init", 0>>

\* ------------------------------------------------- output_dim property

\* output_dim getter: self.top_mlp_dims[-1]
OutputDim == heap[top_mlp_dims][Len(heap[top_mlp_dims])]

\* self.top_mlp_dims[-1] = value, as a function of the list's contents
SetLast_First(dims, value) == [dims EXCEPT ![1] = value]
SetLast(dims, value) == [dims EXCEPT ![Len(dims)] = value]

\* output_dim setter: item assignment on the list object self.top_mlp_dims
\* refers to; no field of self is rebound.
SetOutputDim_Rebind(value) ==
    /\ ~raised
    /\ LET r == Min(Refs \ {top_mlp_dims, top_mlp.dims})
       IN /\ heap' = [heap EXCEPT ![r] = SetLast(heap[top_mlp_dims], value)]
          /\ top_mlp_dims' = r
    /\ lastOp' = <<"set", value>>
    /\ UNCHANGED <<conv_activations, filter_sizes, feature_maps, pooling_sizes,
                   num_channels, image_shape, conv_step, border_mode, layers,
                   top_mlp_activations, top_mlp, stage_dims,
                   param_shapes, phase, raised, pushCount>>
SetOutputDim(value) ==
    /\ ~raised
    /\ heap' = [heap EXCEPT ![top_mlp_dims] = SetLast(heap[top_mlp_dims], value)]
    /\ lastOp' = <<"set", value>>
    /\ UNCHANGED <<conv_activations, filter_sizes, feature_maps, pooling_sizes,
                   num_channels, image_shape, conv_step, border_mode, layers,
                   top_mlp_activations, top_mlp_dims, top_mlp, stage_dims,
                   param_shapes, phase, raised, pushCount>>

\* --------------------------------- the feature-extraction pipeline's shapes
\* (blocks.bricks.conv, called at self.conv_sequence._push_allocation_config()
\* and self.conv_sequence.get_dim('output'))

CeilDiv(a, b) == -((-a) \div b)

\* One spatial dimension after the convolution: 'full' pads so that the
\* kernel slides beyond the edges, 'valid' does not pad.
ConvDim(d, k, step, mode) ==
    CeilDiv(IF mode = "full" THEN d + k - 1 ELSE d - k + 1, step)

\* One spatial dimension after max pooling with window (and step) ds
PoolDim(r, ds) == ((r - 1) \div ds) + 1

\* Output shape (channels, height, width) of one stage
StageOut(layer, shape) ==
    <<layer.num_filters,
      PoolDim(ConvDim(shape[1], layer.filter_size[1], layer.conv_step[1],
                      layer.border_mode), layer.pooling_size[1]),
      PoolDim(ConvDim(shape[2], layer.filter_size[2], layer.conv_step[2],
                      layer.border_mode), layer.pooling_size[2])>>

\* The stages' output shapes, each stage fed the spatial shape of the one
\* before it, the first the image shape
RECURSIVE ResolveStages(_, _)
ResolveStages(ls, shape) ==
    IF ls = <<>> THEN <<>>
    ELSE LET o == StageOut(Head(ls), shape)
         IN <<o>> \o ResolveStages(Tail(ls), <<o[2], o[3]>>)

\* What shape propagation of the conv sequence followed by get_dim('output')
\* can produce. With at least one stage it is the last stage's output shape.
\* With no stage this file does not determine whether the sequence reports
\* its input shape or fails for want of a last layer: both are outcomes.
ConvSequenceOutcomes ==
    IF layers = <<>>
    THEN {[ok |-> FALSE, stages |-> <<>>, dim |-> <<>>],
          [ok |-> TRUE, stages |-> <<>>,
           dim |-> <<num_channels, image_shape[1], image_shape[2]>>]}
    ELSE LET st == ResolveStages(layers, image_shape)
         IN {[ok |-> TRUE, stages |-> st, dim |-> st[Len(st)]]}

\* ------------------------------------------------ _push_allocation_config

\* numpy.prod(conv_out_dim)
RECURSIVE NumpySum(_)
NumpySum(t) == IF t = <<>> THEN 0 ELSE Head(t) + NumpySum(Tail(t))
RECURSIVE NumpyProd(_)
NumpyProd(t) == IF t = <<>> THEN 1 ELSE Head(t) * NumpyProd(Tail(t))

\* [numpy.prod(conv_out_dim)] + self.top_mlp_dims
EffectiveDims_Appended(flat, dims) == dims \o <<flat>>
EffectiveDims_NoInput(flat, dims) == dims
EffectiveDims(flat, dims) == <<flat>> \o dims

\* The smallest reference not in live
NewRef(live) == Min(Refs \ live)

\* The body of LeNet._push_allocation_config once the conv sequence has
\* answered out: list concatenation builds a new list object, top_mlp.dims
\* is rebound to it, and the list it referred to before is dropped unless
\* self.top_mlp_dims still refers to it.
LeNetPush_InPlace(out) ==
    /\ heap' = [heap EXCEPT ![top_mlp_dims] =
                    <<NumpyProd(out.dim)>> \o heap[top_mlp_dims]]
    /\ top_mlp' = [activations |-> top_mlp_activations, dims |-> top_mlp_dims]
    /\ stage_dims' = out.stages
    /\ pushCount' = pushCount + 1
LeNetPush_NoDims(out) ==
    /\ heap' = heap
    /\ top_mlp' = [top_mlp EXCEPT !.activations = top_mlp_activations]
    /\ stage_dims' = out.stages
    /\ pushCount' = pushCount + 1
LeNetPush(out) ==
    LET r == NewRef({top_mlp_dims})
    IN /\ heap' = [q \in Refs |->
                     IF q = r
                     THEN EffectiveDims(NumpyProd(out.dim), heap[top_mlp_dims])
                     ELSE IF q = top_mlp_dims THEN heap[q] ELSE <<>>]
       /\ top_mlp' = [activations |-> top_mlp_activations, dims |-> r]
       /\ stage_dims' = out.stages
       /\ pushCount' = pushCount + 1

\* A call of _push_allocation_config on the instance
PushAllocationConfig ==
    /\ ~raised
    /\ pushCount < MaxPush
    /\ lastOp' = <<"push", 0>>
    /\ \E out \in ConvSequenceOutcomes :
          IF out.ok
          THEN /\ LeNetPush(out)
               /\ UNCHANGED raised
          ELSE /\ raised' = TRUE
               /\ UNCHANGED <<heap, top_mlp, stage_dims, pushCount>>
    /\ UNCHANGED <<conv_activations, filter_sizes, feature_maps, pooling_sizes,
                   num_channels, image_shape, conv_step, border_mode, layers,
                   top_mlp_activations, top_mlp_dims, param_shapes, phase>>

\* ------------------------------------------------------------ the lifecycle

\* The weight matrices of the head: one per pair of consecutive widths
WeightShapes(dims) == [i \in 1..(Len(dims) - 1) |-> <<dims[i], dims[i + 1]>>]

\* convnet.initialize(): the framework pushes the allocation configuration
\* (running _push_allocation_config), then allocates the parameters with the
\* shapes so configured, then initializes them.
Initialize ==
    /\ ~raised
    /\ phase = "constructed"
    /\ pushCount < MaxPush
    /\ lastOp' = <<"initialize", 0>>
    /\ \E out \in ConvSequenceOutcomes :
          IF out.ok
          THEN /\ LeNetPush(out)
               /\ param_shapes' = WeightShapes(heap'[top_mlp'.dims])
               /\ phase' = "initialized"
               /\ UNCHANGED raised
          ELSE /\ raised' = TRUE
               /\ UNCHANGED <<heap, top_mlp, stage_dims, pushCount,
                              param_shapes, phase>>
    /\ UNCHANGED <<conv_activations, filter_sizes, feature_maps, pooling_sizes,
                   num_channels, image_shape, conv_step, border_mode, layers,
                   top_mlp_activations, top_mlp_dims>>

\* convnet.apply(...) on the initialized network
Apply ==
    /\ ~raised
    /\ phase = "initialized"
    /\ phase' = "applied"
    /\ lastOp' = <<"apply", 0>>
    /\ UNCHANGED <<conv_activations, filter_sizes, feature_maps, pooling_sizes,
                   num_channels, image_shape, conv_step, border_mode, layers,
                   top_mlp_activations, top_mlp_dims, top_mlp, heap, stage_dims,
                   param_shapes, raised, pushCount>>

\* ------------------------------------------------------- the specifications

\* Constructions with parameter lists of equal length and a non-empty list
\* of head widths
Init ==
    \E n \in 0..MaxLayers :
    \E acts \in [1..n -> {"Rectifier"}], fsizes \in [1..n -> FilterSizes],
       fmaps \in [1..n -> {3}], psizes \in [1..n -> PoolingSizes],
       ishape \in ImageShapes, bmode \in BorderModes, cstep \in ConvSteps,
       dims \in SeqsFromTo(OutputDims, 1, MaxHead) :
          LeNetInit(acts, 1, ishape, fsizes, fmaps, psizes,
                    [i \in 1..Len(dims) |-> "Rectifier"], dims, cstep, bmode)

Next ==
    \/ \E value \in OutputDims : SetOutputDim(value)
    \/ PushAllocationConfig
    \/ Initialize
    \/ Apply

Spec == Init /\ [][Next]_vars

\* Constructions with parameter lists of any lengths
InitZip ==
    \E acts \in SeqsUpTo(Activations, MaxLayers),
       fsizes \in SeqsUpTo({<<3, 3>>}, MaxLayers),
       fmaps \in SeqsUpTo(FeatureMaps, MaxLayers),
       psizes \in SeqsUpTo({<<2, 2>>}, MaxLayers) :
          LeNetInit(acts, 1, <<4, 4>>, fsizes, fmaps, psizes,
                    <<"Rectifier">>, <<5>>, None, "full")

SpecZip == InitZip /\ [][Next]_vars

\* main(): the defaults and the construction of convnet. A parameter left
\* out is None and takes its default.
DefaultFeatureMaps == <<6, 16>>
DefaultMlpHiddens  == <<120, 84>>
DefaultConvSizes   == <<5, 5>>
DefaultPoolSizes   == <<2, 2>>
MainImageSize      == <<28, 28>>
MainOutputSize     == 10

MainInit(fm, mh, cs, ps) ==
    LET fmaps   == OrDefault(fm, DefaultFeatureMaps)
        hiddens == OrDefault(mh, DefaultMlpHiddens)
        csizes  == OrDefault(cs, DefaultConvSizes)
        psizes  == OrDefault(ps, DefaultPoolSizes)
    IN LeNetInit([i \in 1..Len(fmaps) |-> "Rectifier"], 1, MainImageSize,
                 [i \in 1..Len(csizes) |-> <<csizes[i], csizes[i]>>],
                 fmaps,
                 [i \in 1..Len(psizes) |-> <<psizes[i], psizes[i]>>],
                 [i \in 1..Len(hiddens) |-> "Rectifier"] \o <<"Softmax">>,
                 hiddens \o <<MainOutputSize>>,
                 None, "full")

InitMain ==
    \E fm \in {None} \cup {Some(x) : x \in SeqsUpTo({6, 16}, MaxLayers)},
       mh \in {None} \cup {Some(x) : x \in SeqsUpTo({84, 120}, MaxHead)},
       cs \in {None} \cup {Some(x) : x \in SeqsUpTo({3, 5}, MaxLayers)},
       ps \in {None} \cup {Some(x) : x \in SeqsUpTo({2}, MaxLayers)} :
          MainInit(fm, mh, cs, ps)

\* main() constructs, then initializes, then applies
NextMain ==
    \/ Initialize
    \/ Apply

SpecMain == InitMain /\ [][NextMain]_vars

\* ------------------------------------------------------------ the claims

Last(s) == s[Len(s)]

\* The shape the feature-extraction pipeline ends with, as resolved
FinalShape ==
    IF stage_dims = <<>>
    THEN <<num_channels, image_shape[1], image_shape[2]>>
    ELSE stage_dims[Len(stage_dims)]

FlatCount == FinalShape[1] * FinalShape[2] * FinalShape[3]

\* The last call ran shape propagation to its end
JustPropagated == lastOp[1] \in {"push", "initialize"} /\ ~raised

\* C1: once shape propagation has run on a valid construction, the last of
\* the head's effective widths is the last configured head width, which is
\* what output_dim returns.
C1_OutputWidth ==
    JustPropagated =>
        /\ Last(heap[top_mlp.dims]) = Last(heap[top_mlp_dims])
        /\ Last(heap[top_mlp.dims]) = OutputDim

C1_Witness ==
    /\ JustPropagated
    /\ Len(layers) = 2
    /\ Len(heap[top_mlp_dims]) = 2
    /\ OutputDim = 7

\* C2: setting output_dim to N makes output_dim return N and the last entry
\* of the head-width list N; the list object is the same one, as long as
\* before, and its other entries are untouched.
C2_SetThenGet ==
    [][lastOp'[1] = "set" =>
          /\ OutputDim' = lastOp'[2]
          /\ Last(heap'[top_mlp_dims']) = lastOp'[2]
          /\ top_mlp_dims' = top_mlp_dims
          /\ Len(heap'[top_mlp_dims]) = Len(heap[top_mlp_dims])
          /\ \A i \in 1..(Len(heap[top_mlp_dims]) - 1) :
                heap'[top_mlp_dims][i] = heap[top_mlp_dims][i]]_vars

C2_Witness ==
    /\ lastOp = <<"set", 7>>
    /\ heap[top_mlp_dims] = <<5, 7>>
    /\ top_mlp.dims # top_mlp_dims

\* C4: for the example configuration (28x28 single-channel input, two stages
\* of filter size 5 and pooling size 2, 'full' border mode, stride 1, 6 then
\* 16 feature maps) the stages resolve to 16x16 and 10x10, both positive,
\* and the head is fed 16 * 10 * 10 = 1600 features.
ExampleConfiguration ==
    /\ feature_maps = <<6, 16>>
    /\ filter_sizes = <<<<5, 5>>, <<5, 5>>>>
    /\ pooling_sizes = <<<<2, 2>>, <<2, 2>>>>
    /\ image_shape = <<28, 28>>
    /\ num_channels = 1
    /\ border_mode = "full"
    /\ conv_step = <<1, 1>>

C4_ExampleShapes ==
    (ExampleConfiguration /\ phase # "constructed") =>
        /\ stage_dims = <<<<6, 16, 16>>, <<16, 10, 10>>>>
        /\ \A i \in 1..Len(stage_dims) :
              stage_dims[i][2] > 0 /\ stage_dims[i][3] > 0
        /\ heap[top_mlp.dims][1] = 1600

C4_Witness ==
    /\ ExampleConfiguration
    /\ phase = "initialized"
    /\ heap[top_mlp.dims] = <<1600, 120, 84, 10>>

\* C5: no run reaches parameter allocation with a stage whose resolved
\* spatial dimension is zero or negative (the misconfiguration is reported
\* during shape propagation instead).
C5_NoAllocationOnBadShape ==
    phase # "constructed" =>
        \A i \in 1..Len(stage_dims) :
            stage_dims[i][2] > 0 /\ stage_dims[i][3] > 0

\* C6: in the driver, shape propagation has not run while the network is
\* only constructed, and has run exactly once from initialization on; the
\* head's parameters are allocated with the propagated widths (flattened
\* feature count first), never with the widths it held before propagation.
C6_PropagateOnceBeforeAllocation ==
    /\ phase = "constructed" =>
          /\ pushCount = 0
          /\ param_shapes = <<>>
    /\ phase # "constructed" =>
          /\ pushCount = 1
          /\ Len(param_shapes) = Len(heap[top_mlp_dims])
          /\ param_shapes[1] = <<FlatCount, heap[top_mlp_dims][1]>>
          /\ \A i \in 2..Len(param_shapes) :
                param_shapes[i] = <<heap[top_mlp_dims][i - 1],
                                    heap[top_mlp_dims][i]>>

C6_Witness ==
    /\ phase = "applied"
    /\ pushCount = 1
    /\ Len(layers) = 2
    /\ Len(param_shapes) = 3

\* C7: construction builds one stage per tuple of the four lists, in order,
\* the i-th stage (0-based) carrying the i-th element of each list and the
\* name conv_pool_i; lists of different lengths give as many stages as the
\* shortest list has entries.
C7_OneStagePerTuple ==
    LET n == Min({Len(conv_activations), Len(filter_sizes),
                  Len(feature_maps), Len(pooling_sizes)})
    IN /\ Len(layers) = n
       /\ \A k \in 1..n :
             /\ layers[k].activation = conv_activations[k]
             /\ layers[k].filter_size = filter_sizes[k]
             /\ layers[k].num_filters = feature_maps[k]
             /\ layers[k].pooling_size = pooling_sizes[k]
             /\ layers[k].name = <<"conv_pool", k - 1>>

C7_Witness ==
    /\ Len(layers) = 1
    /\ conv_activations = <<"Tanh", "Rectifier">>
    /\ feature_maps = <<3, 2>>
    /\ Len(filter_sizes) = 1
    /\ Len(pooling_sizes) = 2

\* C8: shape propagation makes the head's effective widths the flattened
\* feature count followed by the configured head widths, one width more
\* than configured; in the driver that is one width more than the head has
\* activations.
C8_EffectiveWidths ==
    phase # "constructed" =>
        /\ heap[top_mlp.dims] = <<FlatCount>> \o heap[top_mlp_dims]
        /\ Len(heap[top_mlp.dims]) = Len(heap[top_mlp_dims]) + 1
        /\ Len(heap[top_mlp.dims]) = Len(top_mlp.activations) + 1

C8_Witness ==
    /\ phase = "initialized"
    /\ Len(layers) = 1
    /\ Len(top_mlp.activations) = 2
    /\ Len(heap[top_mlp.dims]) = 3

\* C9: a shape propagation that directly follows a shape propagation leaves
\* the head's effective widths and the configured head-width list as the
\* first one left them.
C9_Idempotent ==
    [][(lastOp[1] \in {"push", "initialize"} /\ lastOp'[1] = "push") =>
          /\ heap'[top_mlp'.dims] = heap[top_mlp.dims]
          /\ heap'[top_mlp_dims'] = heap[top_mlp_dims]
          /\ top_mlp_dims' = top_mlp_dims]_vars

C9_Witness ==
    /\ lastOp[1] = "push"
    /\ pushCount = 2
    /\ ~raised
    /\ Len(layers) >= 1

\* C10 as stated: in every reachable state the head's last effective width
\* is the current output_dim (taken here on pipelines with at least one
\* stage, where the outcome of shape propagation is determined).
C10_AlwaysCurrent == layers # <<>> => Last(heap[top_mlp.dims]) = OutputDim

\* C10 amended: the head's last effective width is the current output_dim
\* right after every shape propagation; a set of output_dim before the first
\* propagation shows in the head at once (the head still holds the
\* configured list), a set after a propagation leaves the head's effective
\* widths as they were, and in both cases the other configured widths and
\* the resolved shapes are unchanged.
C10_CurrentAfterPropagation ==
    [][/\ (lastOp'[1] \in {"push", "initialize"} /\ ~raised') =>
              Last(heap'[top_mlp'.dims]) = OutputDim'
       /\ lastOp'[1] = "set" =>
              /\ top_mlp' = top_mlp
              /\ top_mlp.dims = top_mlp_dims =>
                    Last(heap'[top_mlp.dims]) = lastOp'[2]
              /\ top_mlp.dims # top_mlp_dims =>
                    heap'[top_mlp.dims] = heap[top_mlp.dims]
              /\ \A i \in 1..(Len(heap[top_mlp_dims]) - 1) :
                    heap'[top_mlp_dims'][i] = heap[top_mlp_dims][i]
              /\ stage_dims' = stage_dims]_vars

C10_Witness ==
    /\ lastOp = <<"set", 7>>
    /\ top_mlp.dims # top_mlp_dims
    /\ Last(heap[top_mlp.dims]) = 5
    /\ Len(heap[top_mlp_dims]) = 2

====
